---- MODULE Spec2Model ----
(***************************************************************************)
(* Model of embiggen's Node2Vec wrapper over the ensmallen engine:         *)
(*   embiggen/embedders/ensmallen_embedders/node2vec.py                    *)
(*   embiggen/embedders/ensmallen_embedders/node2vec_glove.py              *)
(* One embedder object is constructed (by Node2VecGloVeEnsmallen or by     *)
(* another concrete subclass of Node2VecEnsmallen), then parameters() and  *)
(* fit_transform() are called on it.  Strings that the code inspects       *)
(* character by character (the model names) are sequences of characters.   *)
(* Float parameters are kept in hundredths (1.0 is 100, 0.05 is 5).        *)
(***************************************************************************)
EXTENDS Integers, Sequences, FiniteSets, TLC

VARIABLES pc, cls, name, args, _model_kwargs, _model, base, graph,
          as_dataframe, engine_out, walks_sampled, result, last, params_out

vars == <<pc, cls, name, args, _model_kwargs, _model, base, graph,
          as_dataframe, engine_out, walks_sampled, result, last, params_out>>

(* ------------------------------ bounds --------------------------------- *)
MaxEdges == 1
MaxTables == 2
MaxFits == 1

(* ------------------------- model names --------------------------------- *)
DeepWalk_CBOW == <<"D","e","e","p","W","a","l","k"," ","C","B","O","W">>
DeepWalk_SkipGram == <<"D","e","e","p","W","a","l","k"," ","S","k","i","p","G","r","a","m">>
DeepWalk_GloVe == <<"D","e","e","p","W","a","l","k"," ","G","l","o","V","e">>
Node2Vec_CBOW == <<"N","o","d","e","2","V","e","c"," ","C","B","O","W">>
Node2Vec_SkipGram == <<"N","o","d","e","2","V","e","c"," ","S","k","i","p","G","r","a","m">>
Node2Vec_GloVe == <<"N","o","d","e","2","V","e","c"," ","G","l","o","V","e">>
Node2Vec_Dreamwalk == <<"N","o","d","e","2","V","e","c"," ","D","r","e","a","m","w","a","l","k">>
Walklets_CBOW == <<"W","a","l","k","l","e","t","s"," ","C","B","O","W">>
Walklets_SkipGram == <<"W","a","l","k","l","e","t","s"," ","S","k","i","p","G","r","a","m">>
Walklets_GloVe == <<"W","a","l","k","l","e","t","s"," ","G","l","o","V","e">>

\* A model name that is not registered (a subclass returning a wrong name).
Node2Vec_LINE == <<"N","o","d","e","2","V","e","c"," ","L","I","N","E">>

\* The literal "CBOW" of the test in _fit_transform.
CBOW == <<"C","B","O","W">>

RegisteredNames ==
    {DeepWalk_CBOW, DeepWalk_SkipGram, DeepWalk_GloVe, Node2Vec_CBOW,
     Node2Vec_SkipGram, Node2Vec_GloVe, Node2Vec_Dreamwalk, Walklets_CBOW,
     Walklets_SkipGram, Walklets_GloVe}

\* Node2VecEnsmallen.MODELS: model name -> engine class (ensmallen.models.*).
MODELS ==
    [n \in RegisteredNames |->
        CASE n = DeepWalk_CBOW -> "CBOW"
          [] n = DeepWalk_SkipGram -> "SkipGram"
          [] n = DeepWalk_GloVe -> "GloVe"
          [] n = Node2Vec_CBOW -> "CBOW"
          [] n = Node2Vec_SkipGram -> "SkipGram"
          [] n = Node2Vec_GloVe -> "GloVe"
          [] n = Node2Vec_Dreamwalk -> "DreamWalk"
          [] n = Walklets_CBOW -> "WalkletsCBOW"
          [] n = Walklets_SkipGram -> "WalkletsSkipGram"
          [] n = Walklets_GloVe -> "WalkletsGloVe"]

\* Node2VecGloVeEnsmallen.model_name()
model_name == Node2Vec_GloVe

(* --------------------------- helpers ----------------------------------- *)
\* Python's `sub in s` on strings: sub occurs as a contiguous substring.
Contains(sub, s) ==
    \E i \in 0..(Len(s) - Len(sub)) :
        \A j \in 1..Len(sub) : s[i + j] = sub[j]

\* list(reversed(xs))
Reverse(xs) == [i \in 1..Len(xs) |-> xs[Len(xs) + 1 - i]]

\* dict without the keys in ks (dict.pop / a filtering comprehension)
Without(d, ks) == [k \in (DOMAIN d) \ ks |-> d[k]]

\* A must_be_in_set that accepts every value.
must_be_in_set_AcceptsAll(value, candidates) == TRUE

\* userinput.utils.must_be_in_set: TRUE when the value is accepted.
must_be_in_set(value, candidates) == value \in candidates

\* embiggen.utils.normalize_kwargs: keeps the keys and the numeric values.
normalize_kwargs(kwargs) == [k \in DOMAIN kwargs |-> kwargs[k]]

\* The parameters whose domain is the strictly positive numbers.
PositiveKeys ==
    {"embedding_size", "epochs", "learning_rate", "learning_rate_decay",
     "return_weight", "explore_weight", "change_node_type_weight",
     "change_edge_type_weight", "alpha"}

\* Validation of a configuration at construction of the engine model.
ValidConfig(embedding_size, kwargs) ==
    /\ embedding_size > 0
    /\ \A k \in (DOMAIN kwargs) \cap PositiveKeys : kwargs[k] > 0

(* ------------------------------ inputs --------------------------------- *)
EmbeddingSizes == {-1, 0, 5}
EpochChoices == {0, 1}
LearningRates == {-100, 5}
WeightChoices == {0, 100, 400}
RandomStates == {7, 42}

NoKwargs == [k \in {} |-> 0]
NoModel ==
    [class |-> "none", embedding_size |-> 0, random_state |-> 0,
     kwargs |-> NoKwargs]
NoArgs == [embedding_size |-> 0, random_state |-> 0, model_kwargs |-> NoKwargs]
NoResult == [embedding_method_name |-> <<>>, node_embeddings |-> <<>>]
NoGraph == [has_edge_weights |-> FALSE, weights |-> <<>>, node_names |-> <<>>]
NoParams == [ok |-> FALSE, value |-> NoKwargs]

Init ==
    /\ pc = "new"
    /\ cls = "none"
    /\ name = <<>>
    /\ args = NoArgs
    /\ _model_kwargs = NoKwargs
    /\ _model = NoModel
    /\ base = [embedding_size |-> 0, random_state |-> 0]
    /\ graph = NoGraph
    /\ as_dataframe = FALSE
    /\ engine_out = <<>>
    /\ walks_sampled = 0
    /\ result = NoResult
    /\ last = "none"
    /\ params_out = NoParams

(* ------------------- Node2VecEnsmallen.__init__ ------------------------ *)
\* The keyword dictionary of lines 55-62, normalised.
MergedKwargs(embedding_size, random_state, model_kwargs) ==
    normalize_kwargs(
        [k \in {"embedding_size", "random_state"} |->
            IF k = "embedding_size" THEN embedding_size ELSE random_state]
        @@ model_kwargs)

\* self._model_kwargs after the two pops of lines 64-65.
StoredKwargs(embedding_size, random_state, model_kwargs) ==
    Without(MergedKwargs(embedding_size, random_state, model_kwargs),
            {"embedding_size", "random_state"})

\* Construction of an embedder of class c whose model_name() is nm.
Node2VecEnsmallen__init__(c, nm, embedding_size, random_state, model_kwargs) ==
    LET merged == MergedKwargs(embedding_size, random_state, model_kwargs)
        kw == StoredKwargs(embedding_size, random_state, model_kwargs)
        es == merged["embedding_size"]
        rs == merged["random_state"]
    IN
    /\ pc = "new"
    /\ cls' = c
    /\ name' = nm
    /\ args' = [embedding_size |-> embedding_size,
                random_state |-> random_state,
                model_kwargs |-> model_kwargs]
    /\ UNCHANGED <<graph, as_dataframe, engine_out, walks_sampled, result,
                   params_out>>
    /\ IF ~must_be_in_set(nm, DOMAIN MODELS)
       THEN \* line 54 raises
            /\ pc' = "failed"
            /\ last' = "ConfigurationError"
            /\ UNCHANGED <<_model_kwargs, _model, base>>
       ELSE IF nm \notin DOMAIN MODELS
       THEN \* the lookup of line 67 raises
            /\ pc' = "failed"
            /\ last' = "KeyError"
            /\ _model_kwargs' = kw
            /\ UNCHANGED <<_model, base>>
       ELSE IF ~ValidConfig(es, kw)
       THEN \* the engine model of line 67 rejects the configuration
            /\ pc' = "failed"
            /\ last' = "ConfigurationError"
            /\ _model_kwargs' = kw
            /\ UNCHANGED <<_model, base>>
       ELSE /\ pc' = "constructed"
            /\ last' = "constructed"
            /\ _model_kwargs' = kw
            /\ _model' = [class |-> MODELS[nm], embedding_size |-> es,
                          random_state |-> rs, kwargs |-> kw]
            /\ base' = [embedding_size |-> es, random_state |-> rs]

(* ---------------- Node2VecGloVeEnsmallen.__init__ ---------------------- *)
\* The keyword arguments Node2VecGloVeEnsmallen.__init__ forwards.
GloVeKwargs(epochs, change_node_type_weight, change_edge_type_weight, learning_rate) ==
    [alpha |-> 75,
     epochs |-> epochs,
     walk_length |-> 512,
     iterations |-> 1,
     window_size |-> 5,
     return_weight |-> 25,
     explore_weight |-> 400,
     change_node_type_weight |-> change_node_type_weight,
     change_edge_type_weight |-> change_edge_type_weight,
     max_neighbours |-> 100,
     learning_rate |-> learning_rate,
     learning_rate_decay |-> 90,
     central_nodes_embedding_path |-> "None",
     contextual_nodes_embedding_path |-> "None",
     normalize_by_degree |-> FALSE,
     dtype |-> "f32",
     edgetype_transition_file |-> "empty",
     verbose |-> TRUE]

Node2VecGloVeEnsmallen__init__ ==
    \E es \in EmbeddingSizes, ep \in EpochChoices, lr \in LearningRates,
       nw \in WeightChoices, ew \in WeightChoices, rs \in RandomStates :
        Node2VecEnsmallen__init__("Node2VecGloVeEnsmallen", model_name,
                                  es, rs, GloVeKwargs(ep, nw, ew, lr))

\* Keyword arguments of the other concrete subclasses of Node2VecEnsmallen.
OtherKwargs ==
    {[epochs |-> ep, number_of_negative_samples |-> 10, iterations |-> 10] :
        ep \in EpochChoices}
    \cup
    {[epochs |-> 1, number_of_negative_samples |-> 10, iterations |-> 10,
      change_node_type_weight |-> nw, change_edge_type_weight |-> 100] :
        nw \in {0, 400}}

\* Construction of another concrete subclass, whose model_name() is nm, with
\* the default random_state.
OtherSubclass__init__ ==
    \E nm \in RegisteredNames \cup {Node2Vec_LINE}, es \in EmbeddingSizes,
       kw \in OtherKwargs :
        Node2VecEnsmallen__init__("Other", nm, es, 42, kw)

(* --------------------------- parameters -------------------------------- *)
\* EnsmallenEmbedder.parameters(): what super().__init__ stored.
EnsmallenEmbedder_parameters(b) ==
    [embedding_size |-> b.embedding_size, random_state |-> b.random_state]

\* dict(**a, **b): a repeated keyword is a TypeError.
DictMerge(a, b) ==
    IF (DOMAIN a) \cap (DOMAIN b) # {}
    THEN [ok |-> FALSE, value |-> NoKwargs]
    ELSE [ok |-> TRUE, value |-> a @@ b]

\* Node2VecEnsmallen.parameters()
Node2VecEnsmallen_parameters(b, kw) ==
    DictMerge(EnsmallenEmbedder_parameters(b), kw)

\* The removed list without its last entry.
removed_WithoutIterations ==
    {"change_node_type_weight", "change_edge_type_weight",
     "number_of_negative_samples"}

removed ==
    {"change_node_type_weight", "change_edge_type_weight",
     "number_of_negative_samples", "iterations"}

\* Node2VecGloVeEnsmallen.parameters(): the returned mapping, and
\* self._model_kwargs as the call leaves it.
Node2VecGloVeEnsmallen_parameters(b, kw) ==
    LET parent == Node2VecEnsmallen_parameters(b, kw) IN
    [out |-> IF parent.ok
             THEN [ok |-> TRUE, value |-> Without(parent.value, removed)]
             ELSE parent,
     kwargs |-> kw]

\* Node2VecEnsmallen.is_using_node_types()
is_using_node_types(kw) ==
    /\ "change_node_type_weight" \in DOMAIN kw
    /\ kw["change_node_type_weight"] # 100

\* Node2VecEnsmallen.is_using_edge_types()
is_using_edge_types(kw) ==
    /\ "change_edge_type_weight" \in DOMAIN kw
    /\ kw["change_edge_type_weight"] # 100

\* parameters() called on a Node2VecGloVeEnsmallen.
GloVeParameters ==
    /\ pc = "constructed"
    /\ cls = "Node2VecGloVeEnsmallen"
    /\ LET r == Node2VecGloVeEnsmallen_parameters(base, _model_kwargs) IN
        /\ params_out' = r.out
        /\ _model_kwargs' = r.kwargs
    /\ last' = "parameters"
    /\ UNCHANGED <<pc, cls, name, args, _model, base, graph, as_dataframe,
                   engine_out, walks_sampled, result>>

\* parameters() called on another subclass: Node2VecEnsmallen.parameters().
BaseParameters ==
    /\ pc = "constructed"
    /\ cls = "Other"
    /\ params_out' = Node2VecEnsmallen_parameters(base, _model_kwargs)
    /\ last' = "parameters"
    /\ UNCHANGED <<pc, cls, name, args, _model_kwargs, _model, base, graph,
                   as_dataframe, engine_out, walks_sampled, result>>

(* -------------------------- fit_transform ------------------------------ *)
\* Node2VecEnsmallen.requires_positive_edge_weights()
requires_positive_edge_weights == TRUE

\* An is_using_edge_weights that reports no use of the edge weights.
is_using_edge_weights_Never == FALSE

\* Node2VecEnsmallen.is_using_edge_weights()
is_using_edge_weights == TRUE

\* The graph constraint checked before a graph is embedded.
GraphRejected(g) ==
    /\ is_using_edge_weights
    /\ requires_positive_edge_weights
    /\ g.has_edge_weights
    /\ \E i \in 1..Len(g.weights) : g.weights[i] <= 0

SeqsUpTo(S, n) == UNION {[1..k -> S] : k \in 0..n}

EdgeWeights == {-1, 0, 1}

Graphs ==
    {[has_edge_weights |-> Len(w) > 0, weights |-> w, node_names |-> nn] :
        w \in SeqsUpTo(EdgeWeights, MaxEdges), nn \in {<<"a", "b">>}}

\* What the engine's fit_transform may return for a graph: embedding
\* tables with one row per node.
EngineTables(g) ==
    {[role |-> r, rows |-> Len(g.node_names)] :
        r \in {"central", "contextual"}}

EngineOutputs(g) == SeqsUpTo(EngineTables(g), MaxTables) \ {<<>>}

\* pd.DataFrame(node_embedding, index=node_names)
DataFrame(node_embedding, node_names) ==
    [data |-> node_embedding, index |-> node_names]

\* The engine's order kept for every model name.
Reordered_NeverReversed(nm, node_embeddings) == node_embeddings

\* Lines 104-105: the order in which the engine's tables are returned.
Reordered(nm, node_embeddings) ==
    IF Contains(CBOW, nm)
    THEN Reverse(node_embeddings)
    ELSE node_embeddings

\* Node2VecEnsmallen._fit_transform, given what the engine returned.
_fit_transform(nm, g, return_dataframe, from_engine) ==
    LET node_embeddings == Reordered(nm, from_engine) IN
    [embedding_method_name |-> nm,
     node_embeddings |->
        IF return_dataframe
        THEN [i \in 1..Len(node_embeddings) |->
                DataFrame(node_embeddings[i], g.node_names)]
        ELSE node_embeddings]

\* fit_transform(graph, return_dataframe) on a constructed embedder.
FitTransform ==
    /\ pc = "constructed"
    /\ walks_sampled < MaxFits
    /\ \E g \in Graphs, return_dataframe \in BOOLEAN :
        /\ graph' = g
        /\ IF GraphRejected(g)
           THEN /\ last' = "GraphConstraintError"
                /\ UNCHANGED <<as_dataframe, engine_out, walks_sampled,
                               result>>
           ELSE \E from_engine \in EngineOutputs(g) :
                /\ last' = "ok"
                /\ as_dataframe' = return_dataframe
                /\ engine_out' = from_engine
                /\ walks_sampled' = walks_sampled + 1
                /\ result' = _fit_transform(name, g, return_dataframe,
                                            from_engine)
    /\ UNCHANGED <<pc, cls, name, args, _model_kwargs, _model, base,
                   params_out>>

Next ==
    \/ Node2VecGloVeEnsmallen__init__
    \/ OtherSubclass__init__
    \/ GloVeParameters
    \/ BaseParameters
    \/ FitTransform

Spec == Init /\ [][Next]_vars

(* ------------------------------ claims --------------------------------- *)
\* The objective of a registered model name, read from its engine class.
ObjectiveIsCBOW(nm) == MODELS[nm] \in {"CBOW", "WalkletsCBOW"}

\* The tables of the last result, out of their dataframes if they are in any.
ReturnedTables ==
    IF as_dataframe
    THEN [i \in 1..Len(result.node_embeddings) |->
            result.node_embeddings[i].data]
    ELSE result.node_embeddings

Central == [role |-> "central", rows |-> 2]
Contextual == [role |-> "contextual", rows |-> 2]

\* C1: for every registered model name, the result of a fit lists the
\* engine's tables in reverse order exactly when the objective is CBOW and in
\* the engine's order otherwise; an engine output (central, contextual) is
\* returned as (contextual, central) for CBOW and as is for the others, and
\* the returned tables are the engine's tables, none added, dropped or altered.
C1_TableOrder ==
    walks_sampled > 0 =>
        /\ name \in DOMAIN MODELS
        /\ result.embedding_method_name = name
        /\ Len(ReturnedTables) = Len(engine_out)
        /\ ReturnedTables =
              IF ObjectiveIsCBOW(name) THEN Reverse(engine_out) ELSE engine_out
        /\ engine_out = <<Central, Contextual>> =>
              ReturnedTables = IF ObjectiveIsCBOW(name)
                               THEN <<Contextual, Central>>
                               ELSE <<Central, Contextual>>
        /\ \A t \in EngineTables(graph) :
              Cardinality({i \in 1..Len(ReturnedTables) : ReturnedTables[i] = t})
              = Cardinality({i \in 1..Len(engine_out) : engine_out[i] = t})

C1_Witness ==
    /\ walks_sampled > 0
    /\ name = Walklets_CBOW
    /\ as_dataframe
    /\ engine_out = <<Central, Contextual>>
    /\ ReturnedTables = <<Contextual, Central>>

\* A configuration inside the domain the claim gives: a registered model
\* name, and strictly positive embedding size, epochs, rates and weights.
InDomain(nm, a) ==
    /\ nm \in RegisteredNames
    /\ a.embedding_size > 0
    /\ \A k \in {"epochs", "learning_rate", "learning_rate_decay",
                 "return_weight", "explore_weight",
                 "change_node_type_weight", "change_edge_type_weight"} :
          k \in DOMAIN a.model_kwargs => a.model_kwargs[k] > 0

\* C2: a configuration with a parameter outside its domain is rejected with
\* a configuration error, and in every run that ended in a configuration
\* error no walk was sampled, no engine model exists and no table or result
\* has changed.
C2_RejectedBeforeAnyWalk ==
    /\ (pc # "new" /\ ~InDomain(name, args)) =>
          (pc = "failed" /\ last = "ConfigurationError")
    /\ last = "ConfigurationError" =>
          /\ pc = "failed"
          /\ walks_sampled = 0
          /\ _model = NoModel
          /\ engine_out = <<>>
          /\ result = NoResult

C2_Witness ==
    /\ last = "ConfigurationError"
    /\ name = Node2Vec_LINE
    /\ args.embedding_size > 0
    /\ walks_sampled = 0

\* A graph that has edge weights, one of them not strictly positive.
HasNonPositiveWeight(g) ==
    /\ g.has_edge_weights
    /\ \E i \in 1..Len(g.weights) : g.weights[i] <= 0

\* C7: the wrapper declares that it requires positive edge weights and that
\* it uses edge weights, for every instance; a fit on a weighted graph with a
\* weight that is not strictly positive ends in a graph-constraint error, and
\* the engine has embedded only graphs without such a weight.
C7_NegativeWeightRejected ==
    /\ requires_positive_edge_weights
    /\ is_using_edge_weights
    /\ last = "ok" => ~HasNonPositiveWeight(graph)
    /\ (last \in {"ok", "GraphConstraintError"} /\ HasNonPositiveWeight(graph))
          => last = "GraphConstraintError"

C7_Witness ==
    /\ last = "GraphConstraintError"
    /\ graph.weights = <<-1>>
    /\ walks_sampled = 0
    /\ result = NoResult

\* C10: Node2VecGloVeEnsmallen.parameters() returns the parent's mapping
\* without the keys change_node_type_weight, change_edge_type_weight,
\* number_of_negative_samples and iterations: none of the four is in the
\* result, every other key of the parent's mapping is in it with the parent's
\* value, and the stored keyword arguments are those of the construction, so
\* is_using_node_types and is_using_edge_types still see the configured
\* change weights.
C10_GloVeParameters ==
    (last = "parameters" /\ cls = "Node2VecGloVeEnsmallen") =>
        LET parent == Node2VecEnsmallen_parameters(base, _model_kwargs)
            four == {"change_node_type_weight", "change_edge_type_weight",
                     "number_of_negative_samples", "iterations"}
            given == args.model_kwargs
        IN
        /\ parent.ok
        /\ params_out.ok
        /\ (DOMAIN params_out.value) \cap four = {}
        /\ DOMAIN params_out.value = (DOMAIN parent.value) \ four
        /\ \A k \in (DOMAIN parent.value) \ four :
              params_out.value[k] = parent.value[k]
        /\ DOMAIN _model_kwargs = DOMAIN given
        /\ \A k \in DOMAIN given : _model_kwargs[k] = given[k]
        /\ is_using_node_types(_model_kwargs)
              = (given["change_node_type_weight"] # 100)
        /\ is_using_edge_types(_model_kwargs)
              = (given["change_edge_type_weight"] # 100)

C10_Witness ==
    /\ last = "parameters"
    /\ cls = "Node2VecGloVeEnsmallen"
    /\ "iterations" \in DOMAIN _model_kwargs
    /\ "iterations" \notin DOMAIN params_out.value
    /\ "embedding_size" \in DOMAIN params_out.value
    /\ params_out.value["learning_rate"] = 5
    /\ is_using_node_types(_model_kwargs)
    /\ ~is_using_edge_types(_model_kwargs)
====
